---------------------------- MODULE Spec2Model ----------------------------
(***************************************************************************)
(* A model of gf2n.py: elements of GF(2^n) given by a reducing polynomial. *)
(*                                                                         *)
(* A Python value is modelled as a record:                                 *)
(*   an int k            [int |-> k]                                       *)
(*   a bytes string      [bytes |-> <<b1, ..., bm>>], each bi in 0..255    *)
(*   a GF2n object       [p |-> ..., n |-> ..., val |-> ...]               *)
(*   an exception        [error |-> "<its class>"]                         *)
(* The attribute log of a GF2n object is always False (no method sets it)  *)
(* and only guards a diagnostic print, so it is not part of the record.    *)
(***************************************************************************)
EXTENDS Integers, Sequences, FiniteSets

VARIABLES
    poly,   \* the polynomial every call of this run is given
    a,      \* an element the caller holds (left operand of the operators)
    b,      \* a second element the caller holds
    op,     \* the call that returned last: "none", "construct", "add", ...
    rhs,    \* the right-hand argument of that call, or of the running call
    r,      \* what that call returned
    pc,     \* "idle", "reduce" (inside __init__) or "ladder" (inside __pow__)
    self,   \* the object under construction while pc = "reduce"
    steps,  \* iterations of the loop of _reduce_modp run by the __init__ that
            \* is running or returned last (0 once another call is made)
    x0,     \* __pow__'s local x0
    x1,     \* __pow__'s local x1
    bits,   \* the digits of bin(other)[2:] the for loop has still to visit
    seen,   \* the integer the digits already visited spell
    nmul    \* calls of __mul__ made by the running __pow__

vars == <<poly, a, b, op, rhs, r, pc, self, steps, x0, x1, bits, seen, nmul>>

----------------------------------------------------------------------------
(* Bounds of the model. *)

\* Polynomials 1..MaxPoly (0..MaxPoly for the constructor alone).
MaxPoly == 13
\* Integer arguments of the constructor and raw integer operands: 0..MaxVal.
MaxVal == 16
\* Exponents 0..MaxExp.
MaxExp == 7
\* The iteration counter stops counting at StepCap.
StepCap == 20
\* Shifts k of "v XOR (p << k)" tried: 0..MaxShift.
MaxShift == 3

----------------------------------------------------------------------------
(* Python values and built-ins. *)

None == [none |-> 0]
PyInt(k) == [int |-> k]
PyBytes(s) == [bytes |-> s]
PyError(cls) == [error |-> cls]

IsGF2n(x) == "val" \in DOMAIN x
IsBytes(x) == "bytes" \in DOMAIN x
IsInt(x) == "int" \in DOMAIN x
IsError(x) == "error" \in DOMAIN x

\* int.bit_length()
RECURSIVE BitLength(_)
BitLength(x) ==
    IF x = 0 THEN 0 ELSE 1 + BitLength(x \div 2)

\* x ^ y on nonnegative ints
RECURSIVE Xor(_, _)
Xor(x, y) ==
    IF x = 0 THEN y
    ELSE IF y = 0 THEN x
    ELSE ((x + y) % 2) + 2 * Xor(x \div 2, y \div 2)

\* x << k, k >= 0
Shl(x, k) == x * (2 ^ k)

\* v < 2**n for an int v. 2**n is a float in (0, 1) when n < 0: an int is
\* below it exactly when it is <= 0.
Lt2Pow(v, n) ==
    IF n >= 0 THEN v < 2 ^ n ELSE v <= 0

\* int.from_bytes(s, byteorder='big')
RECURSIVE FromBytes(_)
FromBytes(s) ==
    IF s = <<>> THEN 0
    ELSE 256 * FromBytes(SubSeq(s, 1, Len(s) - 1)) + s[Len(s)]

\* v.to_bytes(len, byteorder='big'): OverflowError when v needs more bytes
IntToBytes(v, len) ==
    IF v >= 256 ^ len THEN PyError("OverflowError")
    ELSE PyBytes([i \in 1..len |-> (v \div (256 ^ (len - i))) % 256])

\* bin(e)[2:] for e >= 0, as a sequence of digits, most significant first
RECURSIVE Bin(_)
Bin(e) ==
    IF e < 2 THEN <<e>> ELSE Append(Bin(e \div 2), e % 2)

----------------------------------------------------------------------------
(* GF2n.__init__ and GF2n._reduce_modp *)

\* An argument given as bytes or bytearray is read big-endian; any other is
\* taken as it comes (lines 13-16 and 19-22).
IntOf(arg) ==
    IF IsBytes(arg) THEN FromBytes(arg.bytes) ELSE arg.int

\* The object as __init__ leaves it before it calls _reduce_modp.
GF2nInit(polyArg, valArg) ==
    LET p == IntOf(polyArg)
    IN  [p |-> p, n |-> BitLength(p) - 1, val |-> IntOf(valArg)]

\* Mutation of Reduced: the bound taken one bit too high.
ReducedOffByOne(obj) == Lt2Pow(obj.val, obj.n + 1)

\* The guard of the early return and (negated) of the while loop.
Reduced(obj) == Lt2Pow(obj.val, obj.n)

\* Mutation of ReduceBody: p is not shifted up to the leading bit of val.
ReduceBodyNoShift(obj) ==
    [obj EXCEPT !.val = Xor(obj.val, obj.p)]

\* Mutation of ReduceBody: only the leading bit of val is cleared.
ReduceBodyTopBit(obj) ==
    [obj EXCEPT !.val = obj.val - 2 ^ (BitLength(obj.val) - 1)]

\* One iteration of the while loop.
ReduceBody(obj) ==
    LET valn == BitLength(obj.val) - 1
    IN  [obj EXCEPT !.val = Xor(obj.val, Shl(obj.p, valn - obj.n))]

RECURSIVE ReduceLoop(_)
ReduceLoop(obj) ==
    IF ~Reduced(obj) THEN ReduceLoop(ReduceBody(obj)) ELSE obj

\* _reduce_modp, run to its end. It has no end when p = 0 and val >= 1 (the
\* body then changes nothing): it is applied only to objects with p >= 1.
ReduceModp(obj) ==
    IF Reduced(obj) THEN obj ELSE ReduceLoop(obj)

\* GF2n(polyArg, valArg), run to its end.
GF2n(polyArg, valArg) == ReduceModp(GF2nInit(polyArg, valArg))

\* The polynomial as the caller may pass it: an int, or its big-endian bytes.
PolyArgs ==
    {PyInt(poly)} \cup {IntToBytes(poly, 2)}

\* Byte strings given to the constructor: empty, one byte, two bytes with
\* and without a leading zero byte.
ByteStrings ==
    {<<>>, <<0>>, <<1>>, <<27>>, <<255>>, <<0, 255>>, <<1, 0>>, <<1, 27>>}

\* Values given to the constructor.
ValArgs ==
    {PyInt(v) : v \in 0..MaxVal} \cup {PyBytes(s) : s \in ByteStrings}

\* __init__ up to its call of _reduce_modp.
CtorBegin ==
    /\ pc = "idle"
    /\ \E pa \in PolyArgs, va \in ValArgs :
        /\ self' = GF2nInit(pa, va)
        /\ rhs' = va
    /\ pc' = "reduce"
    /\ op' = "none"
    /\ r' = None
    /\ steps' = 0
    /\ UNCHANGED <<poly, a, b, x0, x1, bits, seen, nmul>>

\* One iteration of the while loop of _reduce_modp.
ReduceStep ==
    /\ pc = "reduce"
    /\ ~Reduced(self)
    /\ self' = ReduceBody(self)
    /\ steps' = IF steps < StepCap THEN steps + 1 ELSE steps
    /\ UNCHANGED <<poly, a, b, op, rhs, r, pc, x0, x1, bits, seen, nmul>>

\* _reduce_modp returns (early, or as its loop ends), and __init__ after it.
CtorReturn ==
    /\ pc = "reduce"
    /\ Reduced(self)
    /\ r' = self
    /\ op' = "construct"
    /\ pc' = "idle"
    /\ self' = None
    /\ UNCHANGED <<poly, a, b, rhs, steps, x0, x1, bits, seen, nmul>>

----------------------------------------------------------------------------
(* The operators of GF2n, each run to its end. *)

\* __eq__: an operand that is no GF2n is made one under self's polynomial.
Eq(obj, other) ==
    LET o == IF IsGF2n(other) THEN other ELSE GF2n(PyInt(obj.p), other)
    IN  (obj.val = o.val) /\ (obj.p = o.p)

\* "x == lit" for an int literal: GF2n.__eq__ when x is a GF2n, the
\* comparison of ints when x is an int, False for bytes.
EqLit(x, lit) ==
    IF IsGF2n(x) THEN Eq(x, PyInt(lit))
    ELSE IF IsInt(x) THEN x.int = lit
    ELSE FALSE

\* Mutation of Add: the values are added as integers.
AddPlus(obj, other) ==
    LET o == IF ~IsGF2n(other) THEN GF2n(PyInt(obj.p), other) ELSE other
    IN  GF2n(PyInt(obj.p), PyInt(obj.val + o.val))

\* __add__
Add(obj, other) ==
    LET o == IF ~IsGF2n(other) THEN GF2n(PyInt(obj.p), other) ELSE other
    IN  GF2n(PyInt(obj.p), PyInt(Xor(obj.val, o.val)))

\* __sub__
Sub(obj, other) == Add(obj, other)

\* Mutation of Double: the value is not shifted.
DoubleNoShift(obj) ==
    LET t == obj.val
    IN  GF2n(PyInt(obj.p), PyInt(IF ~Lt2Pow(t, obj.n) THEN Xor(t, obj.p) ELSE t))

\* __mul__, the branch taken when b == 2.
Double(obj) ==
    LET t == obj.val * 2
    IN  GF2n(PyInt(obj.p), PyInt(IF ~Lt2Pow(t, obj.n) THEN Xor(t, obj.p) ELSE t))

RECURSIVE Mul(_, _)
RECURSIVE MulLoop(_, _, _)
RECURSIVE MulLoopNoDouble(_, _, _)

\* Mutation of MulLoop: the running power is not doubled.
MulLoopNoDouble(m, p, acc) ==
    IF m # 0
    THEN MulLoopNoDouble(m \div 2, p, IF m % 2 = 1 THEN Add(acc, p) ELSE acc)
    ELSE acc

\* __mul__, its while loop from the values m, p and r have on entry.
MulLoop(m, p, acc) ==
    IF m # 0
    THEN MulLoop(m \div 2, Mul(p, PyInt(2)),
                 IF m % 2 = 1 THEN Add(acc, p) ELSE acc)
    ELSE acc

\* __mul__ from line 93 on: the double-and-add path.
MulGeneral(obj, other) ==
    LET o == IF ~IsGF2n(other) THEN GF2n(PyInt(obj.p), other) ELSE other
    IN  MulLoop(o.val, Mul(obj, PyInt(1)), GF2n(PyInt(obj.p), PyInt(0)))

\* __mul__
Mul(obj, other) ==
    IF EqLit(other, 1) THEN GF2n(PyInt(obj.p), PyInt(obj.val))
    ELSE IF EqLit(other, 2) THEN Double(obj)
    ELSE MulGeneral(obj, other)

\* __rmul__: what "k * obj" evaluates to when k is no GF2n.
RMul(obj, k) == Mul(obj, k)

\* Mutation of LadderStep: on a 0 digit x0 is squared before x1 is updated.
LadderStepSwapped(y0, y1, kj) ==
    IF kj = 0
    THEN [x0 |-> Mul(y0, y0), x1 |-> Mul(Mul(y0, y0), y1), muls |-> 2]
    ELSE [x0 |-> Mul(y0, y1), x1 |-> Mul(y1, y1), muls |-> 2]

\* Mutation of LadderStep: a 0 digit only squares x0.
LadderStepSkip(y0, y1, kj) ==
    IF kj = 0
    THEN [x0 |-> Mul(y0, y0), x1 |-> y1, muls |-> 1]
    ELSE [x0 |-> Mul(y0, y1), x1 |-> Mul(y1, y1), muls |-> 2]

\* __pow__, the body of its for loop on digit kj: the new x0 and x1, and the
\* number of calls of __mul__ made.
LadderStep(y0, y1, kj) ==
    IF kj = 0
    THEN [x0 |-> Mul(y0, y0), x1 |-> Mul(y0, y1), muls |-> 2]
    ELSE [x0 |-> Mul(y0, y1), x1 |-> Mul(y1, y1), muls |-> 2]

RECURSIVE Ladder(_, _, _)
Ladder(y0, y1, digits) ==
    IF digits = <<>> THEN y0
    ELSE LET s == LadderStep(y0, y1, Head(digits))
         IN  Ladder(s.x0, s.x1, Tail(digits))

\* __pow__ with an int exponent e >= 0.
Pow(obj, e) ==
    Ladder(GF2n(PyInt(obj.p), PyInt(1)), GF2n(PyInt(obj.p), PyInt(obj.val)),
           Bin(e))

\* Mutation of Ceil8: the quotient rounded down.
Floor8(n) == n \div 8

\* math.ceil(n / 8) for n >= -7
Ceil8(n) == (n + 7) \div 8

\* __bytes__
Bytes(obj) == IntToBytes(obj.val, Ceil8(obj.n))

----------------------------------------------------------------------------
(* The calls a caller holding a and b makes. *)

\* Right-hand operands: the element b, or an int.
Operands ==
    {b} \cup {PyInt(k) : k \in 0..MaxVal}

\* An operator call that runs to its end and returns res.
Returns(name, arg, res) ==
    /\ pc = "idle"
    /\ op' = name
    /\ rhs' = arg
    /\ r' = res
    /\ steps' = 0
    /\ UNCHANGED <<poly, a, b, pc, self, x0, x1, bits, seen, nmul>>

\* a + x
AddOp ==
    \E x \in Operands : Returns("add", x, Add(a, x))

\* a - x
SubOp ==
    \E x \in Operands : Returns("sub", x, Sub(a, x))

\* a * x
MulOp ==
    \E x \in Operands : Returns("mul", x, Mul(a, x))

\* k * a for an int k: int.__mul__ gives NotImplemented, a.__rmul__(k) runs.
RMulOp ==
    \E k \in 0..MaxVal : Returns("rmul", PyInt(k), RMul(a, PyInt(k)))

\* bytes(a)
BytesOp ==
    /\ IsGF2n(a)
    /\ Returns("bytes", None, Bytes(a))

\* a ** b: __pow__ returns NotImplemented for an exponent that is no int,
\* and the expression raises TypeError.
PowNotInt ==
    Returns("pow", b, PyError("TypeError"))

\* a ** e, up to the for loop.
PowBegin ==
    /\ pc = "idle"
    /\ \E e \in 0..MaxExp :
        /\ rhs' = PyInt(e)
        /\ bits' = Bin(e)
    /\ x0' = GF2n(PyInt(a.p), PyInt(1))
    /\ x1' = GF2n(PyInt(a.p), PyInt(a.val))
    /\ seen' = 0
    /\ nmul' = 0
    /\ pc' = "ladder"
    /\ op' = "none"
    /\ r' = None
    /\ steps' = 0
    /\ UNCHANGED <<poly, a, b, self>>

\* One iteration of the for loop of __pow__.
PowStep ==
    /\ pc = "ladder"
    /\ bits # <<>>
    /\ LET s == LadderStep(x0, x1, Head(bits))
       IN  /\ x0' = s.x0
           /\ x1' = s.x1
           /\ nmul' = nmul + s.muls
    /\ seen' = 2 * seen + Head(bits)
    /\ bits' = Tail(bits)
    /\ UNCHANGED <<poly, a, b, op, rhs, r, pc, self, steps>>

\* __pow__ returns x0.
PowReturn ==
    /\ pc = "ladder"
    /\ bits = <<>>
    /\ r' = x0
    /\ op' = "pow"
    /\ pc' = "idle"
    /\ x0' = None
    /\ x1' = None
    /\ seen' = 0
    /\ nmul' = 0
    /\ UNCHANGED <<poly, a, b, rhs, bits, self, steps>>

\* The caller keeps the element returned as its a or its b.
Keep ==
    /\ pc = "idle"
    /\ op # "none"
    /\ IsGF2n(r)
    /\ \/ a' = r /\ b' = b
       \/ b' = r /\ a' = a
    /\ op' = "none"
    /\ rhs' = None
    /\ r' = None
    /\ steps' = 0
    /\ UNCHANGED <<poly, pc, self, x0, x1, bits, seen, nmul>>

----------------------------------------------------------------------------
(* Specifications. *)

InitCommon ==
    /\ op = "none"
    /\ rhs = None
    /\ r = None
    /\ pc = "idle"
    /\ self = None
    /\ steps = 0
    /\ x0 = None
    /\ x1 = None
    /\ bits = <<>>
    /\ seen = 0
    /\ nmul = 0

\* A caller working in one field, p >= 1, who starts with two elements made
\* by GF2n(poly), whose val defaults to 0.
Init ==
    /\ poly \in 1..MaxPoly
    /\ a = GF2n(PyInt(poly), PyInt(0))
    /\ b = GF2n(PyInt(poly), PyInt(0))
    /\ InitCommon

Next ==
    \/ CtorBegin
    \/ ReduceStep
    \/ CtorReturn
    \/ Keep
    \/ AddOp
    \/ SubOp
    \/ MulOp
    \/ RMulOp
    \/ BytesOp
    \/ PowNotInt
    \/ PowBegin
    \/ PowStep
    \/ PowReturn

Spec == Init /\ [][Next]_vars

\* The constructor alone, for every polynomial argument including 0. No
\* element exists before the first call returns.
InitCtor ==
    /\ poly \in 0..MaxPoly
    /\ a = None
    /\ b = None
    /\ InitCommon

NextCtor ==
    \/ CtorBegin
    \/ ReduceStep
    \/ CtorReturn

SpecCtor == InitCtor /\ [][NextCtor]_vars

\* Serialization in wide fields: one value is constructed, serialized, and
\* constructed again from the bytes. The fields have n = 0, 1, 2, 7, 8, 9, 12.
BytePolys == {1, 2, 7, 131, 283, 529, 4727}

InitBytes ==
    /\ poly \in BytePolys
    /\ a = None
    /\ b = None
    /\ op = "none"
    /\ rhs \in {PyInt(v) : v \in 0..(2 ^ (BitLength(poly) - 1))}
    /\ r = None
    /\ pc = "idle"
    /\ self = None
    /\ steps = 0
    /\ x0 = None
    /\ x1 = None
    /\ bits = <<>>
    /\ seen = 0
    /\ nmul = 0

\* a = GF2n(poly, v), run to its end.
Construct ==
    /\ pc = "idle"
    /\ op = "none"
    /\ IsInt(rhs)
    /\ a' = GF2n(PyInt(poly), rhs)
    /\ r' = a'
    /\ op' = "construct"
    /\ UNCHANGED <<poly, b, rhs, pc, self, steps, x0, x1, bits, seen, nmul>>

\* b = GF2n(poly, bytes(a)), run to its end.
Deserialize ==
    /\ pc = "idle"
    /\ op = "bytes"
    /\ IsBytes(r)
    /\ b' = GF2n(PyInt(poly), r)
    /\ r' = b'
    /\ rhs' = r
    /\ op' = "construct"
    /\ UNCHANGED <<poly, a, pc, self, steps, x0, x1, bits, seen, nmul>>

NextBytes ==
    \/ Construct
    \/ BytesOp
    \/ Deserialize

SpecBytes == InitBytes /\ [][NextBytes]_vars

----------------------------------------------------------------------------
(* Reference definitions the properties are stated with. *)

\* The degree of the field.
Degree == BitLength(poly) - 1

\* Bit i of x.
Bit(x, i) == (x \div (2 ^ i)) % 2

\* The product of the polynomials q and p over GF(2), not reduced.
RECURSIVE ClMul(_, _)
ClMul(q, p) ==
    IF q = 0 THEN 0
    ELSE Xor(IF q % 2 = 1 THEN p ELSE 0, 2 * ClMul(q \div 2, p))

\* d is an XOR of shifted copies of p, p >= 1: the product of p and some q.
\* A product of p >= 1 and q is at least q.
IsMultipleOf(d, p) ==
    \E q \in 0..d : ClMul(q, p) = d

\* The right-hand argument of the last call as an element of the field.
RhsElement ==
    IF IsGF2n(rhs) THEN rhs ELSE GF2n(PyInt(poly), rhs)

\* The product of e copies of x under __mul__, seeded with the element 1.
RECURSIVE PowRef(_, _)
PowRef(x, e) ==
    IF e = 0 THEN GF2n(PyInt(x.p), PyInt(1))
    ELSE Mul(PowRef(x, e - 1), x)

\* The least m with 8 * m >= n.
CeilRef(n) ==
    CHOOSE m \in 0..(n + 1) : 8 * m >= n /\ \A j \in 0..(n + 1) : 8 * j >= n => j >= m

InField(x) ==
    IsGF2n(x) => /\ x.p = poly
                 /\ x.n = Degree
                 /\ 0 <= x.val
                 /\ x.val < 2 ^ Degree

----------------------------------------------------------------------------
(* Properties. *)

\* C1: in a field with p >= 1, every element any call has returned (held by
\* the caller as a or b, returned last, or held by a running __pow__ as x0 or
\* x1) has 0 <= val < 2^n.
C1_ValInRange ==
    InField(a) /\ InField(b) /\ InField(r) /\ InField(x0) /\ InField(x1)

\* C1 witness: a product that needed reduction has been returned.
C1_Witness ==
    /\ op = "mul" /\ poly = 11 /\ rhs = b
    /\ a.val = 7 /\ b.val = 7 /\ IsGF2n(r)

\* C2: a constructor call with poly = 0 ends in an error and produces no
\* element.
C2_PolyZeroRejected ==
    (poly = 0) =>
        /\ ~IsGF2n(r)
        /\ (pc = "idle" /\ op = "construct") => IsError(r)

\* C3: for p >= 1 the value the constructor leaves is below 2^n and differs
\* from the value given by an XOR of shifted copies of p, and it is the only
\* such value; the value given XOR (p << k) constructs the same element, and
\* so does the reduced value itself.
C3_ReduceIsRemainder ==
    (poly >= 1 /\ pc = "idle" /\ op = "construct") =>
        LET v == IntOf(rhs)
        IN  /\ r.val < 2 ^ Degree
            /\ IsMultipleOf(Xor(v, r.val), poly)
            /\ \A y \in 0..(2 ^ Degree - 1) :
                   IsMultipleOf(Xor(v, y), poly) => y = r.val
            /\ \A k \in 0..MaxShift :
                   GF2n(PyInt(poly), PyInt(Xor(v, Shl(poly, k)))) = r
            /\ GF2n(PyInt(poly), PyInt(r.val)) = r

\* C3 witness: a two-byte value has been reduced in a field of degree 3.
C3_Witness ==
    /\ pc = "idle" /\ op = "construct" /\ poly = 11
    /\ rhs = PyBytes(<<1, 27>>) /\ steps >= 3

\* C4: for p >= 1 every iteration of the loop of _reduce_modp lowers the bit
\* length of val, and the loop runs at most max(0, bit_length(v) - n) times.
C4_ReduceTerminates ==
    /\ [](poly >= 1 /\ rhs # None /\ (pc = "reduce" \/ op = "construct") =>
            /\ steps <= BitLength(IntOf(rhs)) - Degree \/ steps = 0
            /\ steps < StepCap)
    /\ [][(poly >= 1 /\ pc = "reduce" /\ pc' = "reduce") =>
            BitLength(self'.val) < BitLength(self.val)]_vars

\* C4 witness: a loop of several iterations has ended.
C4_Witness ==
    /\ pc = "idle" /\ op = "construct" /\ poly = 5
    /\ steps = 4 /\ IntOf(rhs) = 255

\* C5: a * b == b * a for elements; k * a is a * k and a * GF2n(p, k) for an
\* int k >= 0; a * 1 == a and a * 0 == 0.
C5_MulCommutes ==
    /\ (op = "mul" /\ IsGF2n(rhs)) => Eq(r, Mul(rhs, a))
    /\ (op \in {"mul", "rmul"} /\ IsInt(rhs)) =>
            /\ Eq(r, Mul(a, rhs))
            /\ Eq(r, RMul(a, rhs))
            /\ Eq(r, Mul(a, RhsElement))
            /\ Eq(r, Mul(RhsElement, a))
            /\ (rhs.int = 1 => Eq(r, a))
            /\ (rhs.int = 0 => Eq(r, PyInt(0)))

\* C5 witness: two elements whose product needs reduction were multiplied.
C5_Witness ==
    /\ op = "mul" /\ rhs = b /\ poly = 11
    /\ a.val = 6 /\ b.val = 5 /\ r.val = 3

\* C6: a multiplier that compares equal to 1 or to 2 gives what the
\* double-and-add loop gives for it.
C6_ShortcutsAgree ==
    (op \in {"mul", "rmul"} /\ (EqLit(rhs, 1) \/ EqLit(rhs, 2))) =>
        r = MulGeneral(a, rhs)

\* C6 witness: 1 was multiplied by the int 2 in a field of degree 1, where
\* 2 reduces to 0.
C6_Witness ==
    /\ op = "mul" /\ rhs = PyInt(2) /\ poly = 2 /\ a.val = 1

\* C7: a ** e is the product of e copies of a; a ** 0 is 1, a ** 1 is a,
\* a ** 2 is a * a, and a ** (m + k) is a ** m * a ** k.
C7_PowIsProduct ==
    (op = "pow" /\ IsInt(rhs)) =>
        LET e == rhs.int
        IN  /\ r = PowRef(a, e)
            /\ r = Pow(a, e)
            /\ (e = 0 => Eq(r, PyInt(1)))
            /\ (e = 1 => Eq(r, a))
            /\ (e = 2 => Eq(r, Mul(a, a)))
            /\ \A m \in 0..e : Eq(r, Mul(Pow(a, m), Pow(a, e - m)))

\* C7 witness: x ** 5 has been returned in the field of x^3 + x + 1.
C7_Witness ==
    /\ op = "pow" /\ rhs = PyInt(5) /\ poly = 11 /\ a.val = 2 /\ r.val = 7

\* C8: bytes(x) has ceil(n / 8) bytes, big-endian, and constructing from them
\* gives an element equal to x.
C8_BytesRoundTrip ==
    /\ (op = "bytes") =>
            /\ IsBytes(r)
            /\ Len(r.bytes) = CeilRef(Degree)
            /\ \A i \in 1..Len(r.bytes) : r.bytes[i] \in 0..255
            /\ FromBytes(r.bytes) = a.val
    /\ (op = "construct" /\ IsBytes(rhs)) =>
            /\ Eq(r, a)
            /\ Eq(r, GF2n(PyInt(poly), PyInt(a.val)))

\* C8 witness: an element of a field of degree 9 whose value takes two bytes
\* has come back from its bytes.
C8_Witness ==
    /\ op = "construct" /\ rhs = PyBytes(<<1, 2>>) /\ poly = 529
    /\ a.val = 258 /\ b = a

\* C9: a + x and a - x are the element whose val is a.val XOR the val of x
\* (x made an element of a's field first), so a + x == x + a, a + a == 0 and
\* a - x == a + x; a and x are as they were.
C9_AddIsXor ==
    (op \in {"add", "sub"}) =>
        /\ r.p = a.p /\ r.n = a.n
        /\ \A i \in 0..BitLength(MaxVal + 2 ^ Degree) :
               Bit(r.val, i) = (Bit(a.val, i) + Bit(RhsElement.val, i)) % 2
        /\ r = Add(RhsElement, a)
        /\ r = Add(a, rhs)
        /\ r = Sub(a, rhs)
        /\ Eq(Add(a, a), PyInt(0))
        /\ Eq(Add(r, rhs), a)

\* C9 witness: an int above the field's range was subtracted.
C9_Witness ==
    /\ op = "sub" /\ rhs = PyInt(13) /\ poly = 7 /\ a.val = 2 /\ r.val = 1

\* C10: while __pow__ runs, x1 == x0 * a, x0 is the product of as many copies
\* of a as the digits visited spell, and two calls of __mul__ were made per
\* digit visited.
C10_LadderInvariant ==
    (pc = "ladder") =>
        /\ Eq(x1, Mul(x0, a))
        /\ x0 = PowRef(a, seen)
        /\ nmul = 2 * (Len(Bin(rhs.int)) - Len(bits))

\* C10 witness: all three digits of 5 have been visited.
C10_Witness ==
    /\ pc = "ladder" /\ bits = <<>> /\ rhs = PyInt(5) /\ seen = 5
    /\ poly = 11 /\ a.val = 3 /\ nmul = 6

============================================================================
